---- MODULE Spec2Model ----
(***************************************************************************)
(* A model of the review auto-reply engine: the response validator and the *)
(* language detector of src/ai_response.py, the generator's history log,   *)
(* and the per-review loop of GooglePlayReviews.auto_reply_to_reviews in    *)
(* src/reviews.py, with its caller in src/main.py.                          *)
(* Beside them: the statistics and the history view, the detector and the   *)
(* per-review loop of src/backend, and the /configure and session endpoints  *)
(* of src/pages/api/index.py with the UserManager of src/backend.            *)
(*                                                                         *)
(* A text is a sequence of characters; a character is a one-token string.  *)
(* Characters outside ASCII are written as tokens named after the letter   *)
(* ("c_cedilla", "cyr_o", "ara_lam").                                       *)
(***************************************************************************)
EXTENDS Integers, Sequences, FiniteSets, TLC

VARIABLES
    pc,             \* where the caller of auto_reply_to_reviews stands
    enable_ai,      \* GooglePlayReviews.enable_ai
    gemini_client,  \* AIResponseGenerator.gemini_client: TRUE = a client, FALSE = None
    reply_history,  \* AIResponseGenerator.reply_history (saved to the file after each append)
    dry_run,        \* the run's dry_run argument
    reviews,        \* the list list_reviews returned to the run
    idx,            \* position of the for loop in reviews
    results,        \* the run's local results dict
    ai_response,    \* the run's local ai_response, between generation and dispatch
    ret,            \* what auto_reply_to_reviews returned to its caller
    posted,         \* the calls made to service.reviews().reply, in order, with their result
    generated,      \* the calls made to generate_response, in order, with the model's answer
    cli,            \* what GooglePlayReviewsCLI.auto_reply did with the result
    fetched,        \* what the run's list_reviews call did: "no" call yet, "ok", "error"
    v_response,     \* validator harness: the response argument
    v_language,     \* validator harness: the language argument
    v_result,       \* validator harness: what _validate_response returned
    v_generated,    \* validator harness: what generate_response returned for that model text
    history_file,   \* the reply history file at history_path: the list last saved to it
    generators,     \* the AIResponseGenerator instances sharing that file
    last_call,      \* the last call made on one of those instances
    f_in,           \* function harness: the function called and its arguments
    f_out,          \* function harness: what the call returned
    environ_key,    \* API process: os.environ['GEMINI_API_KEY'], None when not set
    reviews_handler,\* API process: the global reviews_handler
    sessions,       \* API process: UserManager.sessions, by session token
    tokens_issued,  \* API process: how many session tokens have been generated
    logged_out,     \* API process: the logouts that succeeded, by token and operation
    api_response    \* API process: the last request and its answer

vars == <<pc, enable_ai, gemini_client, reply_history, dry_run, reviews, idx,
          results, ai_response, ret, posted, generated, cli, fetched,
          v_response, v_language, v_result, v_generated,
          history_file, generators, last_call,
          f_in, f_out, environ_key, reviews_handler, sessions, tokens_issued, logged_out,
          api_response>>

run_vars == <<pc, enable_ai, gemini_client, reply_history, dry_run, reviews, idx,
              results, ai_response, ret, posted, generated, cli, fetched>>

validator_vars == <<v_response, v_language, v_result, v_generated>>

history_vars == <<history_file, generators, last_call>>

function_vars == <<f_in, f_out>>

api_vars == <<environ_key, reviews_handler, sessions, tokens_issued, logged_out, api_response>>

----------------------------------------------------------------------------
(* Python values *)

\* Optional[str]: None, or a text.
None == [some |-> FALSE]

Some(t) == [some |-> TRUE, val |-> t]

\* Python truthiness of an Optional[str]: None and "" are falsy.
Truthy(x) == x.some /\ x.val # <<>>

\* c * n
Rep(c, n) == [i \in 1..n |-> c]

\* characters str.strip() removes
Whitespace == {" ", "\t", "\n"}

UpperCase == <<"A", "B", "C", "D", "E", "F", "G", "H", "I", "J", "K", "L", "M",
               "N", "O", "P", "Q", "R", "S", "T", "U", "V", "W", "X", "Y", "Z",
               "C_cedilla", "G_breve", "O_diaeresis", "S_cedilla", "U_diaeresis">>

LowerCase == <<"a", "b", "c", "d", "e", "f", "g", "h", "i", "j", "k", "l", "m",
               "n", "o", "p", "q", "r", "s", "t", "u", "v", "w", "x", "y", "z",
               "c_cedilla", "g_breve", "o_diaeresis", "s_cedilla", "u_diaeresis">>

\* the capitals, each with its small letter
LowerOf ==
    [c \in {UpperCase[i] : i \in 1..Len(UpperCase)} |->
        LowerCase[CHOOSE i \in 1..Len(UpperCase) : UpperCase[i] = c]]

\* str.lower() of one character: a text (capital I with dot above gives two characters)
lower_char(c) ==
    IF c = "I_dot_above" THEN <<"i", "combining_dot_above">>
    ELSE IF c \in DOMAIN LowerOf THEN <<LowerOf[c]>>
    ELSE <<c>>

RECURSIVE lower(_)
\* str.lower(): the characters' lower forms, concatenated
lower(s) ==
    IF \A i \in 1..Len(s) : s[i] # "I_dot_above"
    THEN [i \in 1..Len(s) |-> lower_char(s[i])[1]]
    ELSE LET k == CHOOSE i \in 1..Len(s) : s[i] = "I_dot_above"
         IN  lower(SubSeq(s, 1, k - 1)) \o lower_char(s[k]) \o lower(SubSeq(s, k + 1, Len(s)))

\* word in s: the word is empty, or starts at some position of s
Contains(s, word) ==
    \/ word = <<>>
    \/ \E i \in 1..(Len(s) - Len(word) + 1) :
          /\ s[i] = word[1]
          /\ \A j \in 2..Len(word) : s[i + j - 1] = word[j]

\* str.strip(): from the first character that is no whitespace to the last one,
\* the last one looked for from the end
strip(s) ==
    IF \A i \in 1..Len(s) : s[i] \in Whitespace THEN <<>>
    ELSE SubSeq(s,
                CHOOSE i \in 1..Len(s) :
                    s[i] \notin Whitespace /\ \A j \in 1..(i - 1) : s[j] \in Whitespace,
                Len(s) + 1 -
                    (CHOOSE d \in 1..Len(s) :
                        /\ s[Len(s) + 1 - d] \notin Whitespace
                        /\ \A e \in 1..(d - 1) : s[Len(s) + 1 - e] \in Whitespace))

----------------------------------------------------------------------------
(* AIResponseGenerator: the rule tables *)

forbidden_words ==
    { <<"s", "o", "r", "r", "y">>,
      <<"a", "p", "o", "l", "o", "g", "i", "z", "e">>,
      <<"u", "n", "f", "o", "r", "t", "u", "n", "a", "t", "e", "l", "y">>,
      <<"r", "e", "g", "r", "e", "t">>,
      <<"d", "i", "s", "a", "p", "p", "o", "i", "n", "t", "e", "d">>,
      <<"t", "e", "r", "r", "i", "b", "l", "e">>,
      <<"a", "w", "f", "u", "l">>,
      <<"h", "a", "t", "e">>,
      <<"w", "o", "r", "s", "t">>,
      <<"u", "s", "e", "l", "e", "s", "s">>,
      <<"b", "r", "o", "k", "e", "n">> }

\* longest response the validator lets through unchanged
MaxResponseLen == 350

\* what is kept of a longer response, before the ellipsis
TruncatedLen == 347

\* shortest stripped response the validator accepts
MinResponseLen == 10

Ellipsis == <<".", ".", ".">>

TurkishChars ==
    {"c_cedilla", "g_breve", "i_dotless", "o_diaeresis", "s_cedilla", "u_diaeresis",
     "C_cedilla", "G_breve", "I", "I_dot_above", "O_diaeresis", "S_cedilla", "U_diaeresis"}

RussianChars ==
    {"cyr_a", "cyr_be", "cyr_ve", "cyr_ghe", "cyr_de", "cyr_ie", "cyr_io", "cyr_zhe",
     "cyr_ze", "cyr_i", "cyr_short_i", "cyr_ka", "cyr_el", "cyr_em", "cyr_en", "cyr_o",
     "cyr_pe", "cyr_er", "cyr_es", "cyr_te", "cyr_u", "cyr_ef", "cyr_ha", "cyr_tse",
     "cyr_che", "cyr_sha", "cyr_shcha", "cyr_hard_sign", "cyr_yeru", "cyr_soft_sign",
     "cyr_e", "cyr_yu", "cyr_ya"}

\* the keyword lists of detect_language, in the order the code tries them
LanguageKeywords ==
    << [lang |-> "tr", words |->
         { <<"c_cedilla", "o", "k">>,
           <<"g", "u_diaeresis", "z", "e", "l">>,
           <<"h", "a", "r", "i", "k", "a">>,
           <<"t", "e", "s_cedilla", "e", "k", "k", "u_diaeresis", "r">>,
           <<"s", "a", "g_breve", "o", "l">>,
           <<"i", "y", "i">>,
           <<"k", "o_diaeresis", "t", "u_diaeresis">> }],
       [lang |-> "es", words |->
         { <<"m", "u", "y">>,
           <<"b", "u", "e", "n", "o">>,
           <<"e", "x", "c", "e", "l", "e", "n", "t", "e">>,
           <<"g", "r", "a", "c", "i", "a", "s">>,
           <<"m", "a", "l", "o">>,
           <<"b", "u", "e", "n", "a">> }],
       [lang |-> "fr", words |->
         { <<"t", "r", "e_grave", "s">>,
           <<"b", "o", "n">>,
           <<"e", "x", "c", "e", "l", "l", "e", "n", "t">>,
           <<"m", "e", "r", "c", "i">>,
           <<"m", "a", "u", "v", "a", "i", "s">>,
           <<"b", "i", "e", "n">> }],
       [lang |-> "de", words |->
         { <<"s", "e", "h", "r">>,
           <<"g", "u", "t">>,
           <<"a", "u", "s", "g", "e", "z", "e", "i", "c", "h", "n", "e", "t">>,
           <<"d", "a", "n", "k", "e">>,
           <<"s", "c", "h", "l", "e", "c", "h", "t">>,
           <<"t", "o", "l", "l">> }],
       [lang |-> "ru", words |->
         { <<"cyr_o", "cyr_che", "cyr_ie", "cyr_en", "cyr_soft_sign">>,
           <<"cyr_ha", "cyr_o", "cyr_er", "cyr_o", "cyr_sha", "cyr_o">>,
           <<"cyr_o", "cyr_te", "cyr_el", "cyr_i", "cyr_che", "cyr_en", "cyr_o">>,
           <<"cyr_es", "cyr_pe", "cyr_a", "cyr_es", "cyr_i", "cyr_be", "cyr_o">>,
           <<"cyr_pe", "cyr_el", "cyr_o", "cyr_ha", "cyr_o">>,
           <<"cyr_ka", "cyr_el", "cyr_a", "cyr_es", "cyr_es", "cyr_en", "cyr_o">> }],
       [lang |-> "id", words |->
         { <<"s", "a", "n", "g", "a", "t">>,
           <<"b", "a", "g", "u", "s">>,
           <<"t", "e", "r", "i", "m", "a">>,
           <<"k", "a", "s", "i", "h">>,
           <<"b", "u", "r", "u", "k">> }],
       [lang |-> "fa", words |->
         { <<"ara_khah", "ara_farsi_yeh", "ara_lam", "ara_farsi_yeh">>,
           <<"ara_khah", "ara_waw", "ara_beh">>,
           <<"ara_ain", "ara_alef", "ara_lam", "ara_farsi_yeh">>,
           <<"ara_meem", "ara_meem", "ara_noon", "ara_waw", "ara_noon">>,
           <<"ara_beh", "ara_dal">> }] >>

\* detect_language with the tests in the opposite order: the last language of
\* the list that has a keyword in the text
detect_language_last(text) ==
    LET text_lower == lower(text)
        hit(k) == \E word \in LanguageKeywords[k].words : Contains(text_lower, word)
        hits == {k \in 1..Len(LanguageKeywords) : hit(k)}
    IN  IF hits = {} THEN "en"
        ELSE LanguageKeywords[CHOOSE k \in hits : \A j \in hits : k >= j].lang

\* AIResponseGenerator.detect_language
detect_language(text) ==
    LET text_lower == lower(text)
        hit(k) == \E word \in LanguageKeywords[k].words : Contains(text_lower, word)
        hits == {k \in 1..Len(LanguageKeywords) : hit(k)}
    IN  IF hits = {} THEN "en"
        ELSE LanguageKeywords[CHOOSE k \in hits : \A j \in hits : k <= j].lang

\* response_rules looked up with the rating brought into 1..5 first
response_rule_clamped(rating) ==
    CASE rating <= 2 -> "apologize_and_support"
      [] rating = 3  -> "neutral_improvement"
      [] OTHER       -> "thank_and_engage"

\* self.response_rules.get(rating, "neutral_improvement")
response_rule(rating) ==
    CASE rating \in {1, 2} -> "apologize_and_support"
      [] rating = 3        -> "neutral_improvement"
      [] rating \in {4, 5} -> "thank_and_engage"
      [] OTHER             -> "neutral_improvement"

----------------------------------------------------------------------------
(* AIResponseGenerator: validation, logging, generation *)

\* validate_response cutting an over-long response at the limit, not three short of
\* it, before the ellipsis goes on
validate_response_late_cut(response, language) ==
    IF response = <<>> THEN None
    ELSE LET checked == IF Len(response) > MaxResponseLen
                        THEN SubSeq(response, 1, MaxResponseLen) \o Ellipsis
                        ELSE response
         IN  IF \E word \in forbidden_words : Contains(lower(checked), word) THEN None
             ELSE IF Len(strip(checked)) < MinResponseLen THEN None
             ELSE Some(strip(checked))

\* length_gate cutting at the limit and adding no marker
length_gate_plain(response) ==
    IF Len(response) > MaxResponseLen THEN SubSeq(response, 1, MaxResponseLen) ELSE response

\* if len(response) > 350: response = response[:347] + "..."
length_gate(response) ==
    IF Len(response) > MaxResponseLen
    THEN SubSeq(response, 1, TruncatedLen) \o Ellipsis
    ELSE response

\* has_forbidden_word comparing the text as it is written
has_forbidden_word_cased(response) ==
    \E word \in forbidden_words : Contains(response, word)

\* any(word in response.lower() for word in self.forbidden_words)
has_forbidden_word(response) ==
    LET response_lower == lower(response)
    IN  \E word \in forbidden_words : Contains(response_lower, word)

\* too_short measuring the text with its outer whitespace
too_short_unstripped(response) == Len(response) < MinResponseLen

\* len(response.strip()) < 10
too_short(response) == Len(strip(response)) < MinResponseLen

\* a failed alphabet check turning the response down
warn_rejects(validated) == None

\* a failed tr/ru alphabet check: logger.warning, and on to the same return
warn_only(validated) == validated

\* AIResponseGenerator._validate_response
validate_response(response, language) ==
    IF response = <<>> THEN None
    ELSE LET checked == length_gate(response)
             warned == /\ language # "en"
                       /\ \/ language = "tr" /\ ~\E i \in 1..Len(checked) : checked[i] \in TurkishChars
                          \/ language = "ru" /\ ~\E i \in 1..Len(checked) : checked[i] \in RussianChars
         IN  IF has_forbidden_word(checked) THEN None
             ELSE IF too_short(checked) THEN None
             ELSE IF warned THEN warn_only(Some(strip(checked)))
             ELSE Some(strip(checked))

\* the entry AIResponseGenerator._log_reply builds (the wall-clock timestamp is left out)
log_entry(review_id, review_text, rating, original_response, final_response, language) ==
    [review_id |-> review_id,
     review_text |-> review_text,
     rating |-> rating,
     language |-> language,
     original_ai_response |-> original_response,
     final_response |-> final_response,
     character_count |-> Len(final_response)]

\* log_reply putting the new entry first
log_reply_prepend(history, review_id, review_text, rating, original_response, final_response, language) ==
    <<log_entry(review_id, review_text, rating, original_response, final_response, language)>>
        \o history

\* log_reply that writes no entry
log_reply_nothing(history, review_id, review_text, rating, original_response, final_response, language) ==
    history

\* AIResponseGenerator._log_reply: append, then save the whole list to the file
log_reply(history, review_id, review_text, rating, original_response, final_response, language) ==
    Append(history,
           log_entry(review_id, review_text, rating, original_response, final_response, language))

\* what one call of gemini_client.generate_content can do: raise (also when reading
\* response.text raises), or hand back a text
ModelRaises == [kind |-> "raise"]

ModelText(t) == [kind |-> "text", text |-> t]

\* generate_response returned before the model call (no client)
ModelNotCalled == [kind |-> "not_called"]

\* generate_response handing back the model's text where it should hand back the
\* validated one
returned_response_raw(model_text, validated_response) == Some(model_text)

\* return validated_response
returned_response(model_text, validated_response) == validated_response

\* generate_response falling back to the model's text when validation rejects it
generate_response_fallback(client, history, review_text, rating, review_id, model) ==
    IF ~client \/ model.kind # "text" THEN [value |-> None, history |-> history]
    ELSE LET language == detect_language(review_text)
             model_text == strip(model.text)
             validated_response == validate_response(model_text, language)
         IN  IF Truthy(validated_response)
             THEN [value |-> validated_response,
                   history |-> log_reply(history, review_id, review_text, rating,
                                         model_text, validated_response.val, language)]
             ELSE [value |-> Some(model_text), history |-> history]

\* AIResponseGenerator.generate_response: the value returned and the history afterwards.
\* client is self.gemini_client, model is what the model call does when it is made.
generate_response(client, history, review_text, rating, review_id, model) ==
    IF ~client THEN [value |-> None, history |-> history]
    ELSE IF model.kind # "text" THEN [value |-> None, history |-> history]
    ELSE LET language == detect_language(review_text)
             model_text == strip(model.text)
             validated_response == validate_response(model_text, language)
         IN  IF Truthy(validated_response)
             THEN [value |-> returned_response(model_text, validated_response),
                   history |-> log_reply(history, review_id, review_text, rating,
                                         model_text, validated_response.val, language)]
             ELSE [value |-> None, history |-> history]

----------------------------------------------------------------------------
(* The inputs of a run *)

\* most reviews one fetch returns
MaxBatch == 2

T_crashes == <<"A", "p", "p", " ", "c", "r", "a", "s", "h", "e", "s", " ",
               "c", "o", "n", "s", "t", "a", "n", "t", "l", "y">>

T_great == <<"G", "r", "e", "a", "t", " ", "a", "p", "p">>

T_cok_guzel == <<"c_cedilla", "o", "k", " ", "g", "u_diaeresis", "z", "e", "l">>

T_blank == <<" ", " ", "\t">>

\* the formatted reviews the storefront can return (list_reviews builds these keys)
ReviewPool ==
    { [reviewId |-> "r1", rating |-> 1, userComment |-> T_crashes,   hasReply |-> FALSE],
      [reviewId |-> "r2", rating |-> 5, userComment |-> T_great,     hasReply |-> FALSE],
      [reviewId |-> "r3", rating |-> 4, userComment |-> T_cok_guzel, hasReply |-> TRUE],
      [reviewId |-> "r4", rating |-> 5, userComment |-> <<>>,        hasReply |-> FALSE],
      [reviewId |-> "r5", rating |-> 2, userComment |-> T_blank,     hasReply |-> FALSE],
      [reviewId |-> "r6", rating |-> 3, userComment |-> <<>>,        hasReply |-> TRUE] }

\* the lists one fetch can return: distinct reviews, at most n of them
Batches(n) ==
    UNION { { b \in [1..k -> ReviewPool] : \A i, j \in 1..k : i # j => b[i] # b[j] }
            : k \in 0..n }

T_thanks == <<"T", "h", "a", "n", "k", "s", " ", "f", "o", "r", " ", "t", "h", "e", " ",
              "f", "e", "e", "d", "b", "a", "c", "k", "!">>

T_padded == <<" ", " ", "T", "h", "a", "n", "k", "s", " ", "a", " ", "l", "o", "t", "!",
              " ", " ">>

T_sorry == <<"W", "e", " ", "a", "r", "e", " ", "S", "o", "R", "R", "y", " ", "t", "o", " ",
             "h", "e", "a", "r", " ", "t", "h", "a", "t">>

T_ok == <<"o", "k">>

\* what the generative model can answer during a run
RunModelOutcomes ==
    { ModelRaises, ModelText(<<>>), ModelText(T_thanks), ModelText(T_padded),
      ModelText(T_sorry), ModelText(T_ok), ModelText(Rep("x", MaxResponseLen + 5)) }

\* str(e) of what reply_to_review raises
ReplyErrors == {"HttpError", "Unexpected error while replying to review"}

\* a local that is not bound yet
Unset == [unset |-> TRUE]

\* the generator instances that can share one history file
GeneratorIds == {"g1", "g2"}

\* an instance that is not constructed yet
NotBuilt == [built |-> FALSE, gemini_client |-> FALSE, reply_history |-> <<>>, loaded |-> 0]

NoGenerators == [g \in GeneratorIds |-> NotBuilt]

\* no function of the harness is called
FunctionsIdle == f_in = Unset /\ f_out = Unset

\* the API process before its first request: no key in the environment, no
\* handler configured, no session
ApiIdle ==
    /\ environ_key = None
    /\ reviews_handler = None
    /\ sessions = [t \in {} |-> None]
    /\ tokens_issued = 0
    /\ logged_out = {}
    /\ api_response = Unset

----------------------------------------------------------------------------
(* GooglePlayReviews.auto_reply_to_reviews *)

\* WithDetail putting the new detail first
WithDetail_prepend(res, counter, detail) ==
    [res EXCEPT ![counter] = @ + 1, !.details = <<detail>> \o @]

\* results["details"].append(detail), with the counter of the detail's class
WithDetail(res, counter, detail) ==
    [res EXCEPT ![counter] = @ + 1, !.details = Append(@, detail)]

\* what the run returns when list_reviews gave no reviews
EmptySummary == [processed |-> 0, successful |-> 0, failed |-> 0, skipped |-> 0]

\* the results dict the loop starts from
InitialResults ==
    [processed |-> 0, successful |-> 0, failed |-> 0, skipped |-> 0, details |-> <<>>]

\* NoComment without the strip
NoComment_unstripped(comment) == comment = <<>>

\* not comment or comment.strip() == ""
NoComment(comment) == comment = <<>> \/ strip(comment) = <<>>

\* the detail of a review skipped for the given reason
SkippedDetail(review_id, reason) ==
    [review_id |-> review_id, status |-> "skipped", reason |-> reason]

\* the detail of a review whose generate_response call gave nothing
GenerationFailedDetail(review_id) ==
    [review_id |-> review_id, status |-> "failed", reason |-> "ai_generation_failed"]

\* the detail of a previewed review
DryRunDetail(review_id, response) ==
    [review_id |-> review_id, status |-> "dry_run_success", response |-> response]

\* the detail of a review whose reply was posted
SuccessDetail(review_id, response) ==
    [review_id |-> review_id, status |-> "success", response |-> response]

\* the detail of a review whose reply_to_review call returned a falsy value
PostFailedDetail(review_id, response) ==
    [review_id |-> review_id, status |-> "failed", reason |-> "api_post_failed",
     response |-> response]

\* the detail the except branch of the loop body records: reason is str(e)
ErrorDetail(review_id, message) ==
    [review_id |-> review_id, status |-> "failed", reason |-> message]

\* ShouldPost ignoring the mode
ShouldPost_always(dry) == TRUE

\* if dry_run: preview, else: post
ShouldPost(dry) == ~dry

\* a failed generation ending the whole run
AfterFailedGeneration_abort == "raised"

\* continue: a review without a generated response leaves the loop running
AfterFailedGeneration == "loop"

\* the except branch of the loop body ends the iteration, not the loop
AfterError == "loop"

\* a failed fetch ending the run like a return
AfterFetchError_returns == "returned"

\* list_reviews raised: the outer handler of the run raises again
AfterFetchError == "raised"

\* the dry_run argument GooglePlayReviewsCLI.auto_reply passes for its live flag
DryRunArgument(live) == ~live

\* the loop staying at the review it has just handled
NextIndex_same(i) == i

\* for review in reviews: on to the next review
NextIndex(i) == i + 1

\* the guard raises: AI is not enabled
BeginDisabled ==
    /\ pc = "idle"
    /\ ~enable_ai
    /\ pc' = "raised"
    /\ UNCHANGED <<enable_ai, gemini_client, reply_history, dry_run, reviews, idx,
                   results, ai_response, ret, posted, generated, cli, fetched>>

\* list_reviews raises: the outer handler re-raises
BeginFetchFails ==
    /\ pc = "idle"
    /\ enable_ai
    /\ \E live \in BOOLEAN : dry_run' = DryRunArgument(live)
    /\ fetched' = "error"
    /\ pc' = AfterFetchError
    /\ UNCHANGED <<enable_ai, gemini_client, reply_history, reviews, idx,
                   results, ai_response, ret, posted, generated, cli>>

\* list_reviews returns a list: empty, return at once; otherwise enter the loop
BeginFetch ==
    /\ pc = "idle"
    /\ enable_ai
    /\ \E live \in BOOLEAN : dry_run' = DryRunArgument(live)
    /\ fetched' = "ok"
    /\ \E max_results \in 0..MaxBatch : \E formatted_reviews \in Batches(max_results) :
          /\ reviews' = formatted_reviews
          /\ IF formatted_reviews = <<>>
             THEN /\ ret' = EmptySummary
                  /\ pc' = "returned"
                  /\ UNCHANGED <<results, idx>>
             ELSE /\ results' = InitialResults
                  /\ idx' = 1
                  /\ pc' = "loop"
                  /\ ret' = ret
    /\ UNCHANGED <<enable_ai, gemini_client, reply_history, ai_response, posted,
                   generated, cli>>

\* the review the loop is at
Review == reviews[idx]

\* results after results["processed"] += 1
Counted == [results EXCEPT !.processed = @ + 1]

\* one iteration that ends in a skip
SkipReview ==
    /\ pc = "loop"
    /\ idx <= Len(reviews)
    /\ \/ /\ Review.hasReply
          /\ results' = WithDetail(Counted, "skipped",
                            SkippedDetail(Review.reviewId, "already_has_reply"))
       \/ /\ ~Review.hasReply
          /\ NoComment(Review.userComment)
          /\ results' = WithDetail(Counted, "skipped",
                            SkippedDetail(Review.reviewId, "no_comment"))
    /\ idx' = NextIndex(idx)
    /\ UNCHANGED <<pc, enable_ai, gemini_client, reply_history, dry_run, reviews,
                   ai_response, ret, posted, generated, cli, fetched>>

\* one iteration up to the generator's answer: generate_response is called; a falsy
\* answer ends the iteration as failed, a text goes on to preview or dispatch
GenerateForReview ==
    /\ pc = "loop"
    /\ idx <= Len(reviews)
    /\ ~Review.hasReply
    /\ ~NoComment(Review.userComment)
    /\ \E model \in (IF gemini_client THEN RunModelOutcomes ELSE {ModelNotCalled}) :
          LET out == generate_response(gemini_client, reply_history, Review.userComment,
                                       Review.rating, Review.reviewId, model)
          IN  /\ generated' = Append(generated, [review_id |-> Review.reviewId,
                                                     model |-> model])
              /\ reply_history' = out.history
              /\ IF ~Truthy(out.value)
                 THEN /\ results' = WithDetail(Counted, "failed",
                                       GenerationFailedDetail(Review.reviewId))
                      /\ idx' = NextIndex(idx)
                      /\ pc' = AfterFailedGeneration
                      /\ UNCHANGED ai_response
                 ELSE /\ results' = Counted
                      /\ ai_response' = out.value
                      /\ pc' = "respond"
                      /\ idx' = idx
    /\ UNCHANGED <<enable_ai, gemini_client, dry_run, reviews, ret, posted, cli, fetched>>

\* dry run: record the preview, post nothing
PreviewReview ==
    /\ pc = "respond"
    /\ ~ShouldPost(dry_run)
    /\ results' = WithDetail(results, "successful",
                      DryRunDetail(Review.reviewId, ai_response.val))
    /\ ai_response' = None
    /\ idx' = NextIndex(idx)
    /\ pc' = "loop"
    /\ UNCHANGED <<enable_ai, gemini_client, reply_history, dry_run, reviews, ret,
                   posted, generated, cli, fetched>>

\* GooglePlayReviews.reply_to_review: what the call returns, or the message of what
\* it raises. It returns True when the storefront call succeeded and raises otherwise.
reply_to_review(storefront) ==
    IF storefront = "ok" THEN [returned |-> TRUE, value |-> TRUE]
    ELSE [returned |-> FALSE, message |-> storefront]

\* live run: hand the text to the storefront, record what came of it
PostReview ==
    /\ pc = "respond"
    /\ ShouldPost(dry_run)
    /\ \E storefront \in {"ok"} \cup ReplyErrors :
          LET success == reply_to_review(storefront)
          IN  /\ posted' = Append(posted, [review_id |-> Review.reviewId,
                                           text |-> ai_response.val,
                                           ok |-> storefront = "ok"])
              /\ results' =
                    IF success.returned
                    THEN IF success.value
                         THEN WithDetail(results, "successful",
                                  SuccessDetail(Review.reviewId, ai_response.val))
                         ELSE WithDetail(results, "failed",
                                  PostFailedDetail(Review.reviewId, ai_response.val))
                    ELSE WithDetail(results, "failed",
                             ErrorDetail(Review.reviewId, success.message))
              /\ pc' = IF success.returned THEN "loop" ELSE AfterError
    /\ ai_response' = None
    /\ idx' = NextIndex(idx)
    /\ UNCHANGED <<enable_ai, gemini_client, reply_history, dry_run, reviews, ret,
                   generated, cli, fetched>>

\* the loop is over: return results
ReturnResults ==
    /\ pc = "loop"
    /\ idx > Len(reviews)
    /\ ret' = results
    /\ pc' = "returned"
    /\ UNCHANGED <<enable_ai, gemini_client, reply_history, dry_run, reviews, idx,
                   results, ai_response, posted, generated, cli, fetched>>

----------------------------------------------------------------------------
(* GooglePlayReviewsCLI.auto_reply: what the caller does with the result *)

\* prints the four counts, then reads results['details']; a missing key raises
\* KeyError, which the handler reports as a failure of the whole command
CliShowResults ==
    /\ pc = "returned"
    /\ cli = "waiting"
    /\ cli' = IF "details" \in DOMAIN ret THEN "displayed" ELSE "failed"
    /\ UNCHANGED <<pc, enable_ai, gemini_client, reply_history, dry_run, reviews, idx,
                   results, ai_response, ret, posted, generated, fetched>>

\* the run raised: the handler reports the failure
CliShowError ==
    /\ pc = "raised"
    /\ cli = "waiting"
    /\ cli' = "failed"
    /\ UNCHANGED <<pc, enable_ai, gemini_client, reply_history, dry_run, reviews, idx,
                   results, ai_response, ret, posted, generated, fetched>>

----------------------------------------------------------------------------
(* The run specification *)

Init ==
    /\ pc = "idle"
    /\ enable_ai \in BOOLEAN
    /\ gemini_client \in (IF enable_ai THEN BOOLEAN ELSE {FALSE})
    /\ reply_history = <<>>
    /\ dry_run = TRUE
    /\ reviews = <<>>
    /\ idx = 0
    /\ results = Unset
    /\ ai_response = None
    /\ ret = Unset
    /\ posted = <<>>
    /\ generated = <<>>
    /\ cli = "waiting"
    /\ fetched = "no"
    /\ v_response = <<>>
    /\ v_language = "en"
    /\ v_result = Unset
    /\ v_generated = Unset
    /\ history_file = <<>>
    /\ generators = NoGenerators
    /\ last_call = Unset
    /\ FunctionsIdle
    /\ ApiIdle

Next ==
    \/ BeginDisabled /\ UNCHANGED <<validator_vars, history_vars, function_vars, api_vars>>
    \/ BeginFetchFails /\ UNCHANGED <<validator_vars, history_vars, function_vars, api_vars>>
    \/ BeginFetch /\ UNCHANGED <<validator_vars, history_vars, function_vars, api_vars>>
    \/ SkipReview /\ UNCHANGED <<validator_vars, history_vars, function_vars, api_vars>>
    \/ GenerateForReview /\ UNCHANGED <<validator_vars, history_vars, function_vars, api_vars>>
    \/ PreviewReview /\ UNCHANGED <<validator_vars, history_vars, function_vars, api_vars>>
    \/ PostReview /\ UNCHANGED <<validator_vars, history_vars, function_vars, api_vars>>
    \/ ReturnResults /\ UNCHANGED <<validator_vars, history_vars, function_vars, api_vars>>
    \/ CliShowResults /\ UNCHANGED <<validator_vars, history_vars, function_vars, api_vars>>
    \/ CliShowError /\ UNCHANGED <<validator_vars, history_vars, function_vars, api_vars>>

Spec == Init /\ [][Next]_vars

----------------------------------------------------------------------------
(* The validator on its own: raw texts of many shapes, each validated once and *)
(* each put through generate_response once as the model's answer               *)

\* how far below MaxResponseLen the long prefixes start
EdgeWindow == 7

T_SORRY == <<"S", "O", "R", "R", "Y">>

T_hate == <<"I", " ", "h", "a", "t", "e", " ", "i", "t">>

T_Unfortunately == <<"u", "N", "f", "O", "r", "T", "u", "N", "a", "T", "e", "L", "y">>

T_ochen == <<"cyr_o", "cyr_che", "cyr_ie", "cyr_en", "cyr_soft_sign">>

ValidatorFragments ==
    {<<>>, T_ok, T_thanks, T_sorry, T_SORRY, T_hate, T_Unfortunately, T_blank, T_cok_guzel}

PrefixLens == {0, 4, MinResponseLen - 1} \cup {MaxResponseLen - k : k \in 0..EdgeWindow}

SuffixLens == {0, 3}

PadChars == {"x", " "}

\* prefix padding, a fragment, suffix padding
ValidatorInputs ==
    { Rep(c, n) \o fragment \o Rep(d, m) :
        c \in PadChars, n \in PrefixLens, fragment \in ValidatorFragments,
        d \in PadChars, m \in SuffixLens }

\* over-long raw texts that open with a fragment, some after leading blanks
LongTailInputs ==
    { Rep(" ", k) \o fragment \o Rep("x", MaxResponseLen) :
        k \in {0, 2}, fragment \in {<<>>, T_SORRY, T_thanks} }

ValidatorLanguages == {"en", "tr", "ru"}

\* a review text detect_language gives the language for
ReviewTextIn(language) ==
    CASE language = "tr" -> T_cok_guzel
      [] language = "ru" -> T_ochen
      [] OTHER           -> T_crashes

ValidatorInit ==
    /\ pc = "idle"
    /\ enable_ai = TRUE
    /\ gemini_client = TRUE
    /\ reply_history = <<>>
    /\ dry_run = TRUE
    /\ reviews = <<>>
    /\ idx = 0
    /\ results = Unset
    /\ ai_response = None
    /\ ret = Unset
    /\ posted = <<>>
    /\ generated = <<>>
    /\ cli = "waiting"
    /\ fetched = "no"
    /\ v_response \in ValidatorInputs \cup LongTailInputs
    /\ v_language \in ValidatorLanguages
    /\ v_result = Unset
    /\ v_generated = Unset
    /\ history_file = <<>>
    /\ generators = NoGenerators
    /\ last_call = Unset
    /\ FunctionsIdle
    /\ ApiIdle

\* _validate_response(v_response, v_language)
Validate ==
    /\ v_result = Unset
    /\ v_result' = validate_response(v_response, v_language)
    /\ UNCHANGED <<v_response, v_language, v_generated>>
    /\ UNCHANGED <<run_vars, history_vars, function_vars, api_vars>>

\* generate_response on a review in v_language, the model answering v_response
Generate ==
    /\ v_generated = Unset
    /\ LET out == generate_response(gemini_client, reply_history,
                                    ReviewTextIn(v_language), 1, "r1",
                                    ModelText(v_response))
       IN  /\ v_generated' = out.value
           /\ reply_history' = out.history
    /\ UNCHANGED <<v_response, v_language, v_result>>
    /\ UNCHANGED <<pc, enable_ai, gemini_client, dry_run, reviews, idx, results,
                   ai_response, ret, posted, generated, cli, fetched>>
    /\ UNCHANGED <<history_vars, function_vars, api_vars>>

ValidatorNext == Validate \/ Generate

ValidatorSpec == ValidatorInit /\ [][ValidatorNext]_vars

----------------------------------------------------------------------------
(* The history log: generator instances that share one history file, each     *)
(* loading the file when it is constructed and saving its whole list after    *)
(* each append. Writes to the file are taken to succeed.                      *)

\* most entries one instance holds
MaxHistory == 2

\* AIResponseGenerator._load_reply_history: the list in the file, [] without a file
load_reply_history(file) == file

\* AIResponseGenerator._save_reply_history: the file after json.dump of the list
save_reply_history(history) == history

\* how many entries of the history have the value v in the field
CountField(history, field, v) ==
    Cardinality({k \in 1..Len(history) : history[k][field] = v})

RECURSIVE SumCharacterCount(_)
\* sum(entry.get('character_count', 0) for entry in history)
SumCharacterCount(history) ==
    IF history = <<>> THEN 0
    ELSE history[1].character_count + SumCharacterCount(Tail(history))

RECURSIVE GCD(_, _)
GCD(a, b) == IF b = 0 THEN a ELSE GCD(b, a % b)

\* a / b for a >= 0 and b > 0: the quotient as a fraction in lowest terms
Divide(a, b) == [num |-> a \div GCD(a, b), den |-> b \div GCD(a, b)]

\* a // b: the quotient rounded down
FloorDivide(a, b) == [num |-> a \div b, den |-> 1]

\* get_stats with the average rounded down to a whole number
get_stats_floor(history) ==
    IF history = <<>> THEN [total_replies |-> 0]
    ELSE [total_replies |-> Len(history),
          languages |-> [l \in {history[k].language : k \in 1..Len(history)} |->
                            CountField(history, "language", l)],
          ratings |-> [r \in {history[k].rating : k \in 1..Len(history)} |->
                          CountField(history, "rating", r)],
          average_length |-> FloorDivide(SumCharacterCount(history), Len(history))]

\* AIResponseGenerator.get_stats
get_stats(history) ==
    IF history = <<>> THEN [total_replies |-> 0]
    ELSE [total_replies |-> Len(history),
          languages |-> [l \in {history[k].language : k \in 1..Len(history)} |->
                            CountField(history, "language", l)],
          ratings |-> [r \in {history[k].rating : k \in 1..Len(history)} |->
                          CountField(history, "rating", r)],
          average_length |-> Divide(SumCharacterCount(history), Len(history))]

\* AIResponseGenerator.get_reply_history
get_reply_history(history) == history

\* the reviews the instances are asked to answer
HistoryReviews == {r \in ReviewPool : r.reviewId \in {"r1", "r3"}}

\* what the model can answer to them
HistoryModelOutcomes == {ModelRaises, ModelText(T_thanks), ModelText(T_sorry)}

\* an entry an earlier process left in the file
EarlierEntry == log_entry("r2", T_great, 5, T_padded, strip(T_padded), "en")

\* AIResponseGenerator.__init__: load the history, set up the client
Construct(g) ==
    /\ ~generators[g].built
    /\ \E client \in BOOLEAN :
          generators' = [generators EXCEPT ![g] =
                            [built |-> TRUE,
                             gemini_client |-> client,
                             reply_history |-> load_reply_history(history_file),
                             loaded |-> Len(load_reply_history(history_file))]]
    /\ last_call' = [generator |-> g, op |-> "init", before |-> <<>>, result |-> Unset]
    /\ UNCHANGED history_file

\* the state after generate_response on the instance g, and what the call returned
Generated(g, review, model) ==
    generate_response(generators[g].gemini_client, generators[g].reply_history,
                      review.userComment, review.rating, review.reviewId, model)

\* the file after a generate_response call: saved when, and only when, it logged
FileAfter(g, out) ==
    IF out.history # generators[g].reply_history
    THEN save_reply_history(out.history)
    ELSE history_file

\* generate_response on the instance g, as a run makes it for a review
GenerateResponse(g) ==
    /\ generators[g].built
    /\ Len(generators[g].reply_history) < MaxHistory
    /\ \E review \in HistoryReviews :
       \E model \in (IF generators[g].gemini_client THEN HistoryModelOutcomes
                     ELSE {ModelNotCalled}) :
          LET out == Generated(g, review, model)
          IN  /\ generators' = [generators EXCEPT ![g].reply_history = out.history]
              /\ history_file' = FileAfter(g, out)
              /\ last_call' = [generator |-> g, op |-> "generate_response",
                               before |-> generators[g].reply_history,
                               result |-> out.value]

\* the answer of preview_ai_response for what generate_response returned
PreviewAnswer(value, review_text) ==
    IF ~Truthy(value)
    THEN [status |-> 500, detail |-> "Failed to generate AI response"]
    ELSE [status |-> 200, success |-> TRUE, response |-> value.val,
          length |-> Len(value.val), language |-> detect_language(review_text)]

\* POST /ai-preview on the handler whose generator is g
AiPreview(g) ==
    /\ generators[g].built
    /\ Len(generators[g].reply_history) < MaxHistory
    /\ \E review \in HistoryReviews :
       \E model \in (IF generators[g].gemini_client THEN HistoryModelOutcomes
                     ELSE {ModelNotCalled}) :
          LET out == Generated(g, review, model)
          IN  /\ generators' = [generators EXCEPT ![g].reply_history = out.history]
              /\ history_file' = FileAfter(g, out)
              /\ last_call' = [generator |-> g, op |-> "ai_preview",
                               before |-> generators[g].reply_history,
                               result |-> PreviewAnswer(out.value, review.userComment)]

\* get_stats on the instance g
GetStats(g) ==
    /\ generators[g].built
    /\ last_call' = [generator |-> g, op |-> "get_stats",
                     before |-> generators[g].reply_history,
                     result |-> get_stats(generators[g].reply_history)]
    /\ UNCHANGED <<generators, history_file>>

\* get_reply_history on the instance g
GetReplyHistory(g) ==
    /\ generators[g].built
    /\ last_call' = [generator |-> g, op |-> "get_reply_history",
                     before |-> generators[g].reply_history,
                     result |-> get_reply_history(generators[g].reply_history)]
    /\ UNCHANGED <<generators, history_file>>

HistoryInit ==
    /\ pc = "idle"
    /\ enable_ai = TRUE
    /\ gemini_client = TRUE
    /\ reply_history = <<>>
    /\ dry_run = TRUE
    /\ reviews = <<>>
    /\ idx = 0
    /\ results = Unset
    /\ ai_response = None
    /\ ret = Unset
    /\ posted = <<>>
    /\ generated = <<>>
    /\ cli = "waiting"
    /\ fetched = "no"
    /\ v_response = <<>>
    /\ v_language = "en"
    /\ v_result = Unset
    /\ v_generated = Unset
    /\ history_file \in {<<>>, <<EarlierEntry>>}
    /\ generators = NoGenerators
    /\ last_call = Unset
    /\ FunctionsIdle
    /\ ApiIdle

HistoryNext ==
    \/ \E g \in GeneratorIds : Construct(g) /\ UNCHANGED <<run_vars, validator_vars, function_vars, api_vars>>
    \/ \E g \in GeneratorIds : GenerateResponse(g) /\ UNCHANGED <<run_vars, validator_vars, function_vars, api_vars>>
    \/ \E g \in GeneratorIds : AiPreview(g) /\ UNCHANGED <<run_vars, validator_vars, function_vars, api_vars>>
    \/ \E g \in GeneratorIds : GetStats(g) /\ UNCHANGED <<run_vars, validator_vars, function_vars, api_vars>>
    \/ \E g \in GeneratorIds : GetReplyHistory(g) /\ UNCHANGED <<run_vars, validator_vars, function_vars, api_vars>>

HistorySpec == HistoryInit /\ [][HistoryNext]_vars

----------------------------------------------------------------------------
(* The functions on their own: the language detectors, the response policy,   *)
(* each called once on each of a set of arguments                             *)

W_harika == <<"h", "a", "r", "i", "k", "a">>

W_MUY == <<"M", "U", "Y">>

W_bueno == <<"b", "u", "e", "n", "o">>

W_Bonus == <<"B", "o", "n", "u", "s">>

W_danke == <<"d", "a", "n", "k", "e">>

W_bagus == <<"b", "a", "g", "u", "s">>

W_bad_fa == <<"ara_beh", "ara_dal">>

W_IYI == <<"I_dot_above", "Y", "I_dot_above">>

\* the words review texts are made of: keywords of each language, some in upper
\* case, one inside a longer word, and words that are no keyword
DetectorWords ==
    { T_cok_guzel, W_harika, W_MUY, W_bueno, W_Bonus, W_danke, T_ochen, W_bagus,
      W_bad_fa, T_great, W_IYI }

\* the review texts: the empty text, one word, two words with a blank between
DetectorTexts ==
    {<<>>} \cup DetectorWords
           \cup {a \o <<" ">> \o b : a \in DetectorWords, b \in DetectorWords}

\* turkish_indicators of the backend generator
turkish_indicators ==
    {"c_cedilla", "g_breve", "i_dotless", "o_diaeresis", "s_cedilla", "u_diaeresis",
     "C_cedilla", "G_breve", "I_dot_above", "O_diaeresis", "S_cedilla", "U_diaeresis"}

\* AIResponseGenerator.detect_language of src/backend/ai_response.py: tr when a
\* character of the text is a Turkish indicator; en when a word of the text is
\* one of english_words, and en when none is
backend_detect_language(text) ==
    IF \E i \in 1..Len(text) : text[i] \in turkish_indicators THEN "tr" ELSE "en"

MaxRating == 7

\* the ratings a review can carry, and some it should not
Ratings == (-MaxRating)..MaxRating

\* what a call that came back gave
Returned(value) == [returned |-> value]

\* the character counts of the entries of a history, oldest first: of validated
\* responses, so from 10 to 350
StatsLengths ==
    { <<100, 200, 300>>, <<100>>, <<10, 11>>, <<350, 10, 10>>, <<12, 12, 12, 12>>, <<>> }

\* the entry _log_reply writes for the k-th review of a run whose validated
\* response has n characters
EntryOfLength(k, n) ==
    log_entry(<<"r1", "r2", "r3", "r4", "r5", "r6">>[k], T_great, 1 + (k % 5), Rep("x", n), Rep("x", n),
              IF k % 2 = 0 THEN "tr" ELSE "en")

\* the histories get_stats is called on
StatsHistories ==
    {[k \in 1..Len(lengths) |-> EntryOfLength(k, lengths[k])] : lengths \in StatsLengths}

MaxViewed == 3

MaxLimit == 4

\* the histories a view is asked of: of no entry up to MaxViewed entries
ViewHistories ==
    {[k \in 1..n |-> EntryOfLength(k, 10 + k)] : n \in 0..MaxViewed}

\* the limits a view is asked with: --limit and ?limit= take any int
ViewLimits == (-1)..MaxLimit

\* list[start:] for a start of either sign
SliceFrom(list, start) ==
    LET from == IF start < 0
                THEN (IF start + Len(list) < 0 THEN 0 ELSE start + Len(list))
                ELSE (IF start > Len(list) THEN Len(list) ELSE start)
    IN  SubSeq(list, from + 1, Len(list))

\* reversed(list)
Reversed(list) == [k \in 1..Len(list) |-> list[Len(list) - k + 1]]

\* recent_history = history[-limit:] if len(history) > limit else history
recent_history(history, limit) ==
    IF Len(history) > limit THEN SliceFrom(history, -limit) ELSE history

\* GooglePlayReviewsCLI.show_reply_history: the entries printed, in the order printed
show_reply_history(history, limit) ==
    IF history = <<>>
    THEN [warning |-> "No reply history found.", shown |-> <<>>]
    ELSE [warning |-> "", shown |-> Reversed(recent_history(history, limit))]

\* GET /history: the answer
get_history(handler_enable_ai, history, limit) ==
    IF ~handler_enable_ai
    THEN [success |-> FALSE, message |-> "AI not enabled"]
    ELSE [success |-> TRUE,
          count |-> Len(recent_history(history, limit)),
          history |-> Reversed(recent_history(history, limit))]

\* what generate_response can hand back to the loop: nothing, or a text
GeneratorResults == {None, Some(T_thanks)}

\* what the storefront does with a reply
DispatchResults == {"ok"} \cup ReplyErrors

\* the loop body of GooglePlayReviews.auto_reply_to_reviews, src/reviews.py: the
\* detail it records for one review, given what the generator and the
\* storefront do when they are called
auto_reply_detail(review, dry, value, storefront) ==
    IF review.hasReply THEN SkippedDetail(review.reviewId, "already_has_reply")
    ELSE IF NoComment(review.userComment) THEN SkippedDetail(review.reviewId, "no_comment")
    ELSE IF ~Truthy(value) THEN GenerationFailedDetail(review.reviewId)
    ELSE IF ~ShouldPost(dry) THEN DryRunDetail(review.reviewId, value.val)
    ELSE LET success == reply_to_review(storefront)
         IN  IF ~success.returned THEN ErrorDetail(review.reviewId, success.message)
             ELSE IF success.value THEN SuccessDetail(review.reviewId, value.val)
             ELSE PostFailedDetail(review.reviewId, value.val)

\* GooglePlayReviews.reply_to_review, src/backend/reviews.py: True when the
\* storefront call succeeded, False on an HttpError; any other error is raised
backend_reply_to_review(storefront) ==
    IF storefront = "ok" THEN [returned |-> TRUE, value |-> TRUE]
    ELSE IF storefront = "HttpError" THEN [returned |-> TRUE, value |-> FALSE]
    ELSE [returned |-> FALSE, message |-> storefront]

\* the loop body of GooglePlayReviews.auto_reply_to_reviews, src/backend/reviews.py:
\* the entry it appends to its result list for one review
backend_auto_reply_detail(review, dry, value, storefront) ==
    IF review.hasReply
    THEN [review_id |-> review.reviewId, status |-> "skipped",
          reason |-> "Already has a reply"]
    ELSE IF review.rating >= 5
    THEN [review_id |-> review.reviewId, status |-> "skipped",
          reason |-> "Positive review (5 stars)"]
    ELSE IF ~Truthy(value)
    THEN [review_id |-> review.reviewId, status |-> "failed",
          reason |-> "Failed to generate AI response"]
    ELSE IF dry
    THEN [review_id |-> review.reviewId, rating |-> review.rating,
          review_text |-> review.userComment, ai_response |-> value.val,
          status |-> "preview"]
    ELSE LET success == backend_reply_to_review(storefront)
         IN  IF ~success.returned
             THEN [review_id |-> review.reviewId, status |-> "error",
                   error |-> success.message]
             ELSE [review_id |-> review.reviewId, rating |-> review.rating,
                   review_text |-> review.userComment, ai_response |-> value.val,
                   status |-> IF success.value THEN "posted" ELSE "failed"]

\* the calls: the function and its arguments
FunctionInputs ==
    [fn : {"detect_language", "backend_detect_language"}, text : DetectorTexts]
        \cup [fn : {"response_rule"}, rating : Ratings]
        \cup [fn : {"get_stats"}, history : StatsHistories]
        \cup [fn : {"auto_reply_to_reviews", "backend_auto_reply_to_reviews"},
               review : ReviewPool, dry_run : BOOLEAN, value : GeneratorResults,
               storefront : DispatchResults]
        \cup [fn : {"show_reply_history"}, history : ViewHistories, limit : ViewLimits]
        \cup [fn : {"get_history"}, enable_ai : BOOLEAN, history : ViewHistories,
               limit : ViewLimits]

FunctionsInit ==
    /\ pc = "idle"
    /\ enable_ai = TRUE
    /\ gemini_client = TRUE
    /\ reply_history = <<>>
    /\ dry_run = TRUE
    /\ reviews = <<>>
    /\ idx = 0
    /\ results = Unset
    /\ ai_response = None
    /\ ret = Unset
    /\ posted = <<>>
    /\ generated = <<>>
    /\ cli = "waiting"
    /\ fetched = "no"
    /\ v_response = <<>>
    /\ v_language = "en"
    /\ v_result = Unset
    /\ v_generated = Unset
    /\ history_file = <<>>
    /\ generators = NoGenerators
    /\ last_call = Unset
    /\ f_in \in FunctionInputs
    /\ f_out = Unset
    /\ ApiIdle

\* AIResponseGenerator.detect_language(f_in.text), src/ai_response.py
DetectLanguage ==
    /\ f_in.fn = "detect_language"
    /\ f_out = Unset
    /\ f_out' = Returned(detect_language(f_in.text))
    /\ UNCHANGED f_in

\* AIResponseGenerator.detect_language(f_in.text), src/backend/ai_response.py
BackendDetectLanguage ==
    /\ f_in.fn = "backend_detect_language"
    /\ f_out = Unset
    /\ f_out' = Returned(backend_detect_language(f_in.text))
    /\ UNCHANGED f_in

\* rule = self.response_rules.get(rating, "neutral_improvement")
ResponseRule ==
    /\ f_in.fn = "response_rule"
    /\ f_out = Unset
    /\ f_out' = Returned(response_rule(f_in.rating))
    /\ UNCHANGED f_in

\* AIResponseGenerator.get_stats on a generator whose reply_history is f_in.history
GetStatsOf ==
    /\ f_in.fn = "get_stats"
    /\ f_out = Unset
    /\ f_out' = Returned(get_stats(f_in.history))
    /\ UNCHANGED f_in

\* one pass of the loop of src/reviews.py over the review f_in.review
AutoReplyOne ==
    /\ f_in.fn = "auto_reply_to_reviews"
    /\ f_out = Unset
    /\ f_out' = Returned(auto_reply_detail(f_in.review, f_in.dry_run, f_in.value,
                                             f_in.storefront))
    /\ UNCHANGED f_in

\* one pass of the loop of src/backend/reviews.py over the review f_in.review
BackendAutoReplyOne ==
    /\ f_in.fn = "backend_auto_reply_to_reviews"
    /\ f_out = Unset
    /\ f_out' = Returned(backend_auto_reply_detail(f_in.review, f_in.dry_run, f_in.value,
                                                     f_in.storefront))
    /\ UNCHANGED f_in

\* main.py history --limit f_in.limit, the generator holding f_in.history
ShowReplyHistory ==
    /\ f_in.fn = "show_reply_history"
    /\ f_out = Unset
    /\ f_out' = Returned(show_reply_history(f_in.history, f_in.limit))
    /\ UNCHANGED f_in

\* GET /history?limit=f_in.limit, the handler holding f_in.history
GetHistory ==
    /\ f_in.fn = "get_history"
    /\ f_out = Unset
    /\ f_out' = Returned(get_history(f_in.enable_ai, f_in.history, f_in.limit))
    /\ UNCHANGED f_in

FunctionsNext ==
    \/ DetectLanguage /\ UNCHANGED <<run_vars, validator_vars, history_vars, api_vars>>
    \/ BackendDetectLanguage /\ UNCHANGED <<run_vars, validator_vars, history_vars, api_vars>>
    \/ ResponseRule /\ UNCHANGED <<run_vars, validator_vars, history_vars, api_vars>>
    \/ GetStatsOf /\ UNCHANGED <<run_vars, validator_vars, history_vars, api_vars>>
    \/ AutoReplyOne /\ UNCHANGED <<run_vars, validator_vars, history_vars, api_vars>>
    \/ BackendAutoReplyOne /\ UNCHANGED <<run_vars, validator_vars, history_vars, api_vars>>
    \/ ShowReplyHistory /\ UNCHANGED <<run_vars, validator_vars, history_vars, api_vars>>
    \/ GetHistory /\ UNCHANGED <<run_vars, validator_vars, history_vars, api_vars>>

FunctionsSpec == FunctionsInit /\ [][FunctionsNext]_vars

----------------------------------------------------------------------------
(* The API process of src/pages/api/index.py: /configure and the session      *)
(* endpoints, with the UserManager and the generator of src/backend. Users    *)
(* are registered beforehand; time passes by a session reaching its expiry.   *)

\* the Gemini keys a request can carry or the environment can hold
GeminiKeys == {<<"K", "1">>, <<"K", "2">>}

\* what the gemini_api_key of a /configure request can be: absent, empty, a key
ConfigKeys == {None, Some(<<>>)} \cup {Some(k) : k \in GeminiKeys}

\* the registered users
Users == {"alice"}

MaxSessions == 2

\* generate_session_token: a token never given before
TokenNames == <<"t1", "t2", "t3", "t4">>

\* the tokens a request can carry: those given so far and one never given
KnownTokens == {TokenNames[n] : n \in 1..tokens_issued} \cup {"forged"}

\* self.sessions = {}
NoSessions == [t \in {} |-> None]

\* del self.sessions[session_token]
Without(sess, session_token) == [t \in DOMAIN sess \ {session_token} |-> sess[t]]

\* self.sessions[session_token] = session
With(sess, session_token, session) ==
    [t \in DOMAIN sess \cup {session_token} |->
        IF t = session_token THEN session ELSE sess[t]]

\* AIResponseGenerator.__init__ of src/backend/ai_response.py:
\* self.api_key = api_key or os.getenv('GEMINI_API_KEY')
AIResponseGenerator(api_key, environment) ==
    [api_key |-> IF Truthy(api_key) THEN api_key ELSE environment]

\* the generator built after the key is put in the environment
configured_generator_env_first(key, environment) == AIResponseGenerator(None, key)

\* ai_generator = AIResponseGenerator() in configure: built from the environment
\* as it is before os.environ['GEMINI_API_KEY'] = config.gemini_api_key
configured_generator(key, environment) == AIResponseGenerator(None, environment)

\* UserManager.get_user_by_token: the user, and the sessions afterwards
get_user_by_token(sess, session_token) ==
    IF session_token \notin DOMAIN sess THEN [user |-> None, sessions |-> sess]
    ELSE IF sess[session_token].expired
    THEN [user |-> None, sessions |-> Without(sess, session_token)]
    ELSE IF sess[session_token].username \notin Users
    THEN [user |-> None, sessions |-> sess]
    ELSE [user |-> Some(sess[session_token].username), sessions |-> sess]

\* UserManager.logout_user: the sessions afterwards; the answer is always a success
logout_user(sess, session_token) ==
    IF session_token \in DOMAIN sess THEN Without(sess, session_token) ELSE sess

\* get_current_user: 401 without a Bearer token or without a user for the token
get_current_user(sess, authorization) ==
    IF ~authorization.some THEN [status |-> 401, user |-> None, sessions |-> sess]
    ELSE LET found == get_user_by_token(sess, authorization.val)
         IN  [status |-> IF found.user.some THEN 200 ELSE 401,
              user |-> found.user, sessions |-> found.sessions]

\* the Authorization headers a request can come with
Authorizations == {None} \cup {Some(t) : t \in KnownTokens}

ApiInit ==
    /\ pc = "idle"
    /\ enable_ai = TRUE
    /\ gemini_client = TRUE
    /\ reply_history = <<>>
    /\ dry_run = TRUE
    /\ reviews = <<>>
    /\ idx = 0
    /\ results = Unset
    /\ ai_response = None
    /\ ret = Unset
    /\ posted = <<>>
    /\ generated = <<>>
    /\ cli = "waiting"
    /\ fetched = "no"
    /\ v_response = <<>>
    /\ v_language = "en"
    /\ v_result = Unset
    /\ v_generated = Unset
    /\ history_file = <<>>
    /\ generators = NoGenerators
    /\ last_call = Unset
    /\ FunctionsIdle
    /\ environ_key \in {None} \cup {Some(k) : k \in GeminiKeys}
    /\ reviews_handler = None
    /\ sessions = NoSessions
    /\ tokens_issued = 0
    /\ logged_out = {}
    /\ api_response = Unset

\* POST /configure. Every error inside the handler, its own 400s too, is caught
\* and answered with 500.
Configure ==
    /\ \E with_service_account \in BOOLEAN, authenticated \in BOOLEAN,
          config_enable_ai \in BOOLEAN,
          config_key \in ConfigKeys :
           LET request == [request |-> "configure", enable_ai |-> config_enable_ai,
                           gemini_api_key |-> config_key]
           IN  IF ~with_service_account \/ ~authenticated
                  \/ (config_enable_ai /\ ~Truthy(config_key))
               THEN /\ api_response' = request @@ [status |-> 500]
                    /\ UNCHANGED <<environ_key, reviews_handler>>
               ELSE /\ reviews_handler' =
                           Some([enable_ai |-> config_enable_ai,
                                 ai_generator |->
                                     IF config_enable_ai
                                     THEN Some(configured_generator(config_key, environ_key))
                                     ELSE None])
                    /\ environ_key' = IF config_enable_ai THEN config_key ELSE environ_key
                    /\ api_response' = request @@ [status |-> 200]
    /\ UNCHANGED <<sessions, tokens_issued, logged_out>>

\* POST /auth/login: UserManager.authenticate_user
LoginUser ==
    /\ \E username \in Users \cup {"mallory"}, password_matches \in BOOLEAN :
           IF username \notin Users \/ ~password_matches
           THEN /\ api_response' = [request |-> "login", status |-> 200, success |-> FALSE]
                /\ UNCHANGED <<sessions, tokens_issued>>
           ELSE /\ tokens_issued < MaxSessions
                /\ LET session_token == TokenNames[tokens_issued + 1]
                   IN  /\ sessions' = With(sessions, session_token,
                                           [username |-> username, expired |-> FALSE])
                       /\ api_response' = [request |-> "login", status |-> 200,
                                           success |-> TRUE, session_token |-> session_token]
                /\ tokens_issued' = tokens_issued + 1
    /\ UNCHANGED <<environ_key, reviews_handler, logged_out>>

\* POST /auth/logout: the handler depends on get_current_user and answers
\* with a success; it makes no call on the user manager
LogoutUser ==
    /\ \E authorization \in Authorizations :
           LET current == get_current_user(sessions, authorization)
           IN  /\ sessions' = current.sessions
               /\ api_response' = [request |-> "logout", authorization |-> authorization,
                                   status |-> current.status]
               /\ logged_out' =
                     IF current.status = 200
                     THEN logged_out \cup {[token |-> authorization.val, by |-> "/auth/logout"]}
                     ELSE logged_out
    /\ UNCHANGED <<environ_key, reviews_handler, tokens_issued>>

\* GET /auth/me
GetCurrentUserInfo ==
    /\ \E authorization \in Authorizations :
           LET current == get_current_user(sessions, authorization)
           IN  /\ sessions' = current.sessions
               /\ api_response' = [request |-> "me", authorization |-> authorization,
                                   status |-> current.status]
    /\ UNCHANGED <<environ_key, reviews_handler, tokens_issued, logged_out>>

\* UserManager.logout_user called on the manager itself
ManagerLogoutUser ==
    /\ \E session_token \in KnownTokens :
           /\ sessions' = logout_user(sessions, session_token)
           /\ logged_out' = logged_out \cup {[token |-> session_token,
                                               by |-> "UserManager.logout_user"]}
           /\ api_response' = [request |-> "UserManager.logout_user",
                               authorization |-> Some(session_token), status |-> 200]
    /\ UNCHANGED <<environ_key, reviews_handler, tokens_issued>>

\* datetime.now() passes the expires_at of a session
SessionExpires ==
    /\ \E session_token \in DOMAIN sessions :
           /\ ~sessions[session_token].expired
           /\ sessions' = [sessions EXCEPT ![session_token].expired = TRUE]
    /\ UNCHANGED <<environ_key, reviews_handler, tokens_issued, logged_out, api_response>>

ApiNext ==
    \/ Configure /\ UNCHANGED <<run_vars, validator_vars, history_vars, function_vars>>
    \/ LoginUser /\ UNCHANGED <<run_vars, validator_vars, history_vars, function_vars>>
    \/ LogoutUser /\ UNCHANGED <<run_vars, validator_vars, history_vars, function_vars>>
    \/ GetCurrentUserInfo /\ UNCHANGED <<run_vars, validator_vars, history_vars, function_vars>>
    \/ ManagerLogoutUser /\ UNCHANGED <<run_vars, validator_vars, history_vars, function_vars>>
    \/ SessionExpires /\ UNCHANGED <<run_vars, validator_vars, history_vars, function_vars>>

ApiSpec == ApiInit /\ [][ApiNext]_vars

----------------------------------------------------------------------------
(* Properties *)

\* the letters the forbidden terms start with
ForbiddenInitials == {word[1] : word \in forbidden_words}

\* the text has a forbidden term in it, in any letter case: at some position of the
\* lowercased text a forbidden term starts
HasForbiddenTerm(text) ==
    LET low == lower(text)
    IN  \E i \in 1..Len(low) :
            /\ low[i] \in ForbiddenInitials
            /\ \E word \in forbidden_words :
                  /\ i + Len(word) - 1 <= Len(low)
                  /\ \A j \in 1..Len(word) : low[i + j - 1] = word[j]

\* C1: whatever the raw model output, a text the validator returns, and so a text
\* generate_response returns, has at most 350 characters and holds no forbidden
\* term in any letter case.
C1_ValidatedTextIsSafe ==
    /\ (v_result # Unset /\ v_result.some) =>
          /\ Len(v_result.val) <= MaxResponseLen
          /\ ~HasForbiddenTerm(v_result.val)
    /\ (v_generated # Unset /\ v_generated.some) =>
          /\ Len(v_generated.val) <= MaxResponseLen
          /\ ~HasForbiddenTerm(v_generated.val)

\* C1 witness: an over-long raw text with a forbidden term in it was cut to the
\* limit and returned by the validator and by generate_response.
C1_Witness ==
    /\ Len(v_response) > MaxResponseLen
    /\ HasForbiddenTerm(v_response)
    /\ v_result # Unset /\ v_result.some /\ Len(v_result.val) = MaxResponseLen
    /\ v_generated # Unset /\ v_generated.some

----------------------------------------------------------------------------
(* Properties of a run *)

\* the fetched review with the given id
ReviewOf(id) == CHOOSE r \in ReviewPool : r.reviewId = id

\* the text is empty or all whitespace
IsBlank(text) == \A i \in 1..Len(text) : text[i] \in Whitespace

\* the details recorded so far in the run
Details == IF results = Unset THEN <<>> ELSE results.details

\* the positions in a list of records whose review_id is id
At(list, id) == {k \in 1..Len(list) : list[k].review_id = id}

\* what the validator says of each text the model can answer with, for a review in
\* each language of the pool (tabulated once)
ValidatorVerdicts ==
    [model \in {o \in RunModelOutcomes : o.kind = "text"} |->
        [language \in {detect_language(r.userComment) : r \in ReviewPool} |->
            validate_response(strip(model.text), language)]]

\* the language detect_language gives each review of the pool (tabulated once)
LanguageOf == [r \in ReviewPool |-> detect_language(r.userComment)]

\* what the validator says of the model's answer in the generate_response call g
AcceptedIn(g) ==
    IF g.model.kind = "text"
    THEN ValidatorVerdicts[g.model][LanguageOf[ReviewOf(g.review_id)]]
    ELSE None

\* the model gave nothing to validate in the call g: no client, a raise, or no text
GenerationFailedIn(g) == g.model.kind # "text" \/ strip(g.model.text) = <<>>

\* C2: every text handed to the storefront reply call is the text the validator
\* accepted for that same review in this run, so it has at most 350 characters and
\* no forbidden term; no unvalidated model output is dispatched.
C2_DispatchedTextWasValidated ==
    \A k \in 1..Len(posted) :
        /\ \E j \in At(generated, posted[k].review_id) :
              AcceptedIn(generated[j]) = Some(posted[k].text)
        /\ Len(posted[k].text) <= MaxResponseLen
        /\ ~HasForbiddenTerm(posted[k].text)

\* C2 witness: a live run dispatched a text the validator had cut to the limit.
C2_Witness ==
    \E k \in 1..Len(posted) :
        /\ Len(posted[k].text) = MaxResponseLen
        /\ \E j \in At(generated, posted[k].review_id) :
              Len(generated[j].model.text) > MaxResponseLen

\* C3: a review's outcome is skipped exactly when the review already has a reply or
\* its text is empty or all whitespace, whatever its rating; and for a skipped review
\* neither generate_response nor the storefront reply call is made.
C3_SkippedIffRepliedOrBlank ==
    \A k \in 1..Len(Details) :
        LET d == Details[k]
            r == ReviewOf(d.review_id)
        IN  /\ d.status = "skipped" <=> (r.hasReply \/ IsBlank(r.userComment))
            /\ d.status = "skipped" =>
                  /\ At(generated, d.review_id) = {}
                  /\ At(posted, d.review_id) = {}

\* C3 witness: a finished run skipped a whitespace-only review without a reply and
\* did not skip another review.
C3_Witness ==
    /\ pc = "returned"
    /\ \E k \in 1..Len(Details) :
          /\ Details[k].status = "skipped"
          /\ ~ReviewOf(Details[k].review_id).hasReply
          /\ ReviewOf(Details[k].review_id).userComment # <<>>
    /\ \E k \in 1..Len(Details) : Details[k].status # "skipped"

\* C4: when generation fails or raises for a review, that review's outcome is failed,
\* every review of the batch still gets its own outcome, and the run does not abort.
C4_GenerationFailureIsIsolated ==
    /\ pc = "raised" => generated = <<>>
    /\ \A j \in 1..Len(generated) :
          GenerationFailedIn(generated[j]) =>
              \A k \in At(Details, generated[j].review_id) : Details[k].status = "failed"
    /\ (pc = "returned" /\ generated # <<>>) =>
          /\ Len(ret.details) = Len(reviews)
          /\ \A i \in 1..Len(reviews) : At(ret.details, reviews[i].reviewId) = {i}

\* C4 witness: generation raised for the first of two reviews and the second was
\* answered all the same.
C4_Witness ==
    /\ pc = "returned"
    /\ Len(reviews) = 2
    /\ Len(generated) = 2
    /\ generated[1].model = ModelRaises
    /\ ret.details[1].status = "failed"
    /\ ret.details[2].status \in {"success", "dry_run_success"}

\* C5: in a dry run a review with a validated response ends as dry_run_success, the
\* storefront reply call is made for no review, and the dry run on the one review
\* {rating 1, a text, no reply} with a successful generation returns processed 1,
\* successful 1, failed 0, skipped 0.
C5_DryRunPreviewsAndPostsNothing ==
    dry_run =>
        /\ posted = <<>>
        /\ \A j \in 1..Len(generated) :
              AcceptedIn(generated[j]).some =>
                  \A k \in At(Details, generated[j].review_id) :
                      /\ Details[k].status = "dry_run_success"
                      /\ Details[k].response = AcceptedIn(generated[j]).val
        /\ ( /\ pc = "returned"
             /\ reviews = <<ReviewOf("r1")>>
             /\ AcceptedIn(generated[1]).some )
           => /\ ret.processed = 1
              /\ ret.successful = 1
              /\ ret.failed = 0
              /\ ret.skipped = 0
              /\ Len(ret.details) = 1

\* C5 witness: the one-review dry run on r1 returned with its response previewed.
C5_Witness ==
    /\ pc = "returned"
    /\ dry_run
    /\ reviews = <<ReviewOf("r1")>>
    /\ ReviewOf("r1").rating = 1
    /\ ret.details[1].status = "dry_run_success"

\* C6: in a live run a review with a validated response ends as success when the
\* storefront reply call succeeds and as failed with the reason api_post_failed (the
\* dispatch failure reason) when it does not, and the run goes on.
C6_DispatchOutcome ==
    /\ \A k \in 1..Len(posted) : \A m \in At(Details, posted[k].review_id) :
          IF posted[k].ok
          THEN Details[m].status = "success"
          ELSE Details[m].status = "failed" /\ Details[m].reason = "api_post_failed"
    /\ pc = "raised" => posted = <<>>

TerminalStatuses == {"skipped", "failed", "dry_run_success", "success"}

\* C8: a run records exactly one outcome per fetched review, each with one terminal
\* status, in the order the reviews were fetched.
C8_OneOutcomePerReviewInOrder ==
    /\ results # Unset =>
          /\ Len(results.details) = idx - 1
          /\ \A k \in 1..Len(results.details) :
                /\ results.details[k].review_id = reviews[k].reviewId
                /\ results.details[k].status \in TerminalStatuses
    /\ pc = "returned" =>
          \A i \in 1..Len(reviews) :
              /\ Len(ret.details) = Len(reviews)
              /\ At(ret.details, reviews[i].reviewId) = {i}
              /\ ret.details[i].status \in TerminalStatuses

\* C8 witness: a finished run of two reviews with two different outcomes.
C8_Witness ==
    /\ pc = "returned"
    /\ Len(reviews) = 2
    /\ ret.details[1].status # ret.details[2].status

\* how many details of the list have a status in the set
CountStatus(list, statuses) == Cardinality({k \in 1..Len(list) : list[k].status \in statuses})

\* C9: in every returned summary processed is the number of fetched reviews and
\* the length of the outcome list, processed = successful + failed + skipped, and
\* successful is the number of success and dry_run_success outcomes.
C9_CountsMatchOutcomeList ==
    pc = "returned" =>
        /\ ret.processed = Len(reviews)
        /\ ret.processed = ret.successful + ret.failed + ret.skipped
        /\ "details" \in DOMAIN ret
        /\ ret.processed = Len(ret.details)
        /\ ret.successful = CountStatus(ret.details, {"success", "dry_run_success"})

\* The counts of C9 in the summaries that do hold an outcome list.
CountsMatchWhereListed ==
    (pc = "returned" /\ "details" \in DOMAIN ret) =>
        /\ ret.processed = Len(reviews)
        /\ ret.processed = ret.successful + ret.failed + ret.skipped
        /\ ret.processed = Len(ret.details)
        /\ ret.successful = CountStatus(ret.details, {"success", "dry_run_success"})
        /\ ret.failed = CountStatus(ret.details, {"failed"})
        /\ ret.skipped = CountStatus(ret.details, {"skipped"})

\* C10: every run that returns returns the four counts and the outcome list, the
\* run whose fetch gave no reviews too, so the caller can read the list.
C10_SummaryIsComplete ==
    /\ pc = "returned" =>
          {"processed", "successful", "failed", "skipped", "details"} \subseteq DOMAIN ret
    /\ (pc = "returned" /\ cli # "waiting") => cli = "displayed"

\* C11, as claimed: with the model client unconfigured (no credential) the run fails
\* as a whole before any review is processed: no per-review failed record is made
\* and a run that fetched reviews does not return a summary.
C11_UnconfiguredClientFailsRun ==
    ~gemini_client =>
        /\ \A k \in 1..Len(Details) : Details[k].status # "failed"
        /\ reviews # <<>> => pc # "returned"

\* What the run does with an unconfigured client: generate_response returns None
\* without calling the model, so every review that is not skipped is recorded as
\* failed with the reason ai_generation_failed.
UnconfiguredClientFailsEachReview ==
    (enable_ai /\ ~gemini_client) =>
        /\ pc # "raised" \/ fetched = "error"
        /\ \A k \in 1..Len(Details) :
              \/ Details[k].status = "skipped"
              \/ Details[k] = GenerationFailedDetail(reviews[k].reviewId)
        /\ \A j \in 1..Len(generated) : generated[j].model = ModelNotCalled

\* C12: when the initial list_reviews call fails the whole run raises: no summary
\* is returned, generate_response and the storefront reply call are never made and
\* no history entry is appended.
C12_FetchFailureAbortsRun ==
    fetched = "error" =>
        /\ pc = "raised"
        /\ ret = Unset
        /\ results = Unset
        /\ generated = <<>>
        /\ posted = <<>>
        /\ reply_history = <<>>
        /\ cli # "displayed"

\* C12 witness: the fetch of a run with AI enabled and a configured client failed
\* and the caller has reported the failure.
C12_Witness ==
    /\ fetched = "error"
    /\ enable_ai
    /\ gemini_client
    /\ cli = "failed"

\* the calls of generate_response that reached the model, for the review id
ModelCallsFor(id) == {j \in At(generated, id) : generated[j].model # ModelNotCalled}

\* C13: within one run the model is invoked at most once per fetched review, also
\* after a failure or a rejection, and the storefront reply call is made at most
\* once per fetched review.
C13_AtMostOnceEachPerReview ==
    \A r \in ReviewPool :
        /\ Cardinality(ModelCallsFor(r.reviewId)) <= 1
        /\ Cardinality(At(generated, r.reviewId)) <= 1
        /\ Cardinality(At(posted, r.reviewId)) <= 1

\* C13 witness: a finished live run of two reviews in which the model raised for one
\* review, the storefront call failed for the other, and each call was made once.
C13_Witness ==
    /\ pc = "returned"
    /\ Len(reviews) = 2
    /\ Len(generated) = 2
    /\ \E j \in 1..2 : generated[j].model = ModelRaises
    /\ Len(posted) = 1
    /\ ~posted[1].ok

----------------------------------------------------------------------------
(* Properties of the history log *)

\* a is the beginning of b
IsPrefix(a, b) == Len(a) <= Len(b) /\ \A i \in 1..Len(a) : a[i] = b[i]

RECURSIVE IsSubsequence(_, _)
\* the entries of a are found in b, in the order they have in a
IsSubsequence(a, b) ==
    IF a = <<>> THEN TRUE
    ELSE IF b = <<>> THEN FALSE
    ELSE IF a[1] = b[1] THEN IsSubsequence(Tail(a), Tail(b))
    ELSE IsSubsequence(a, Tail(b))

\* the history the instance of the last call holds now
HistoryNow == generators[last_call.generator].reply_history

\* C14, as claimed: a preview of a response for one review (POST /ai-preview) leaves
\* the reply history as it was, whether the preview succeeds or is rejected.
C14_PreviewLeavesHistory ==
    (last_call # Unset /\ last_call.op = "ai_preview") =>
        HistoryNow = last_call.before

\* What does hold of a preview: one that fails or is rejected leaves the history as
\* it was, one that succeeds appends the entry of its response.
PreviewLogsOnSuccessOnly ==
    (last_call # Unset /\ last_call.op = "ai_preview") =>
        IF last_call.result.status = 200
        THEN /\ Len(HistoryNow) = Len(last_call.before) + 1
             /\ IsPrefix(last_call.before, HistoryNow)
             /\ HistoryNow[Len(HistoryNow)].final_response = last_call.result.response
        ELSE HistoryNow = last_call.before

\* C15: over any sequence of generate_response, get_stats and get_reply_history
\* calls on a generator the history held before a call is a prefix of the history
\* after it: entries are appended at the end, never removed, changed or reordered.
C15_HistoryIsAppendOnly ==
    [][\A g \in GeneratorIds :
          IsPrefix(generators[g].reply_history, generators'[g].reply_history)]_vars

\* C15 witness: an instance that started empty holds two different entries, in the
\* order their calls were made, and has just been read by get_stats.
C15_Witness ==
    /\ last_call # Unset
    /\ last_call.op = "get_stats"
    /\ generators[last_call.generator].loaded = 0
    /\ Len(HistoryNow) = 2
    /\ HistoryNow[1] # HistoryNow[2]
    /\ last_call.result.total_replies = 2

\* the entries the instance g has appended since it loaded the file
Appended(g) ==
    SubSeq(generators[g].reply_history, generators[g].loaded + 1,
           Len(generators[g].reply_history))

\* C16, as claimed: when two runs, each with its own generator instance, append to
\* the same history file, every entry either has appended is in the file afterwards
\* and the entries of each keep their order; no append loses another.
C16_ConcurrentAppendsAllPersist ==
    \A g \in GeneratorIds :
        generators[g].built => IsSubsequence(Appended(g), history_file)

\* What does hold of the file: it is the list of the instance that saved last.
FileIsLastSaversList ==
    (last_call # Unset /\ last_call.op \in {"generate_response", "ai_preview"}
        /\ HistoryNow # last_call.before)
    => history_file = HistoryNow

----------------------------------------------------------------------------
(* Properties of the validator's gates *)

\* the text after the length gate: as it is up to 350 characters, else its first
\* 347 characters and the ellipsis marker
AfterLengthGate(text) ==
    IF Len(text) > MaxResponseLen
    THEN SubSeq(text, 1, TruncatedLen) \o <<".", ".", ".">>
    ELSE text

\* the position of the first character of the text that is no whitespace
FirstInk(text) ==
    CHOOSE i \in 1..Len(text) :
        text[i] \notin Whitespace /\ \A j \in 1..(i - 1) : text[j] \in Whitespace

\* how many whitespace characters the text ends with
TrailingBlanks(text) ==
    CHOOSE n \in 0..Len(text) :
        /\ \A e \in 1..n : text[Len(text) + 1 - e] \in Whitespace
        /\ n < Len(text) => text[Len(text) - n] \notin Whitespace

\* the position of the last character of the text that is no whitespace
LastInk(text) == Len(text) - TrailingBlanks(text)

\* the text without its leading and trailing whitespace
Trimmed(text) ==
    IF IsBlank(text) THEN <<>> ELSE SubSeq(text, FirstInk(text), LastInk(text))

\* the text ends with the ellipsis marker
EndsWithEllipsis(text) ==
    /\ Len(text) >= 3
    /\ \A i \in 0..2 : text[Len(text) - i] = "."

\* C17, as claimed: every raw text with a forbidden term in it, in any letter case
\* and whatever its length, is rejected whole by the validator.
C17_ForbiddenTermAlwaysRejects ==
    (v_result # Unset /\ HasForbiddenTerm(v_response)) => v_result = None

\* C17, amended: every raw text that has a forbidden term in it after the length
\* gate is rejected whole, nothing of it is returned; an over-long text whose only
\* forbidden terms reach beyond its 347th character loses them to the cut and is
\* judged without them.
C17_ForbiddenTermAfterCutRejects ==
    /\ (v_result # Unset /\ HasForbiddenTerm(AfterLengthGate(v_response)))
          => v_result = None
    /\ (v_result # Unset /\ v_result = None /\ HasForbiddenTerm(v_response)
          /\ Len(Trimmed(AfterLengthGate(v_response))) >= MinResponseLen)
          => HasForbiddenTerm(AfterLengthGate(v_response))

\* C17 witness: an over-long text with a forbidden term in capitals inside its first
\* 347 characters was rejected.
C17_Witness ==
    /\ Len(v_response) > MaxResponseLen
    /\ HasForbiddenTerm(SubSeq(v_response, 1, TruncatedLen))
    /\ ~has_forbidden_word_cased(v_response)
    /\ v_result = None

\* C18, as claimed: for a raw text of more than 350 characters that no later gate
\* rejects the validator returns exactly 350 characters, ending with the ellipsis
\* marker.
C18_OverlongGivesExactly350 ==
    (v_result # Unset /\ Len(v_response) > MaxResponseLen /\ v_result.some) =>
        /\ Len(v_result.val) = MaxResponseLen
        /\ EndsWithEllipsis(v_result.val)

\* C18, amended: for such a text the validator returns the trimmed form of its first
\* 347 characters with the ellipsis marker: at most 350 characters, ending with the
\* marker, exactly 350 when the raw text does not start with whitespace and shorter
\* by the leading whitespace when it does.
C18_OverlongGivesTrimmedCut ==
    (v_result # Unset /\ Len(v_response) > MaxResponseLen /\ v_result.some) =>
        /\ Len(v_result.val) <= MaxResponseLen
        /\ EndsWithEllipsis(v_result.val)
        /\ Len(v_result.val) = MaxResponseLen - (FirstInk(v_response) - 1)
        /\ \A i \in 1..(Len(v_result.val) - 3) :
              v_result.val[i] = v_response[FirstInk(v_response) - 1 + i]

\* C18 witness: an over-long text that starts with whitespace was accepted.
C18_Witness ==
    /\ Len(v_response) > MaxResponseLen
    /\ v_response[1] \in Whitespace
    /\ v_result # Unset
    /\ v_result.some

\* the result of the gates in the order: reject the empty text; cut an over-long
\* text to 347 characters and the ellipsis; reject on a forbidden term; reject a
\* text whose trimmed length is below 10; return the trimmed text
GatesInOrder(text) ==
    IF text = <<>> THEN None
    ELSE IF HasForbiddenTerm(AfterLengthGate(text)) THEN None
    ELSE IF Len(Trimmed(AfterLengthGate(text))) < MinResponseLen THEN None
    ELSE Some(Trimmed(AfterLengthGate(text)))

LanguageCodes == {"en"} \cup {LanguageKeywords[k].lang : k \in 1..Len(LanguageKeywords)}

\* C20: the language argument never changes the validator's result: the decision
\* and the text are the same for every language code, for tr and ru texts without
\* a character of the expected alphabet too. Each raw text is validated for en,
\* and its result there is compared with its result for every code.
C20_LanguageDoesNotChangeResult ==
    (v_result # Unset /\ v_language = "en") =>
        \A language \in LanguageCodes :
            validate_response(v_response, language) = v_result

\* C20 witness: a text with no Turkish and no Cyrillic character in it was accepted,
\* for tr and ru as for en.
C20_Witness ==
    /\ v_result # Unset
    /\ v_language = "en"
    /\ v_result.some
    /\ \A i \in 1..Len(v_response) : v_response[i] \notin TurkishChars \cup RussianChars
    /\ validate_response(v_response, "tr") = v_result
    /\ validate_response(v_response, "ru") = v_result

----------------------------------------------------------------------------
(* Properties of the language detector and the response policy *)

\* the word stands in the text, at some position
Occurs(word, text) ==
    \E i \in 1..(Len(text) - Len(word) + 1) : SubSeq(text, i, i + Len(word) - 1) = word

\* the text, lowercased, has a keyword of the k-th language of the list
HasKeywordOf(k, text) ==
    \E word \in LanguageKeywords[k].words : Occurs(word, lower(text))

\* the place of a language in the order of the tests
OrderOf(language) ==
    CHOOSE k \in 1..Len(LanguageKeywords) : LanguageKeywords[k].lang = language

\* C21: detect_language answers for every text, the empty one too, with the
\* first language in the order tr, es, fr, de, ru, id, fa that has a keyword in
\* the lowercased text, and with en when no language has one; a text with a
\* Turkish and a Spanish keyword gives tr.
C21_FirstLanguageInOrderWins ==
    (f_in # Unset /\ f_in.fn = "detect_language" /\ f_out # Unset) =>
        /\ f_out.returned \in LanguageCodes
        /\ [k \in 1..Len(LanguageKeywords) |-> LanguageKeywords[k].lang]
              = <<"tr", "es", "fr", "de", "ru", "id", "fa">>
        /\ (f_out.returned = "en") <=>
              (\A k \in 1..Len(LanguageKeywords) : ~HasKeywordOf(k, f_in.text))
        /\ f_out.returned # "en" =>
              /\ HasKeywordOf(OrderOf(f_out.returned), f_in.text)
              /\ \A j \in 1..(OrderOf(f_out.returned) - 1) : ~HasKeywordOf(j, f_in.text)
        /\ (HasKeywordOf(OrderOf("tr"), f_in.text) /\ HasKeywordOf(OrderOf("es"), f_in.text))
              => f_out.returned = "tr"
        /\ f_in.text = <<>> => f_out.returned = "en"

\* C21 witness: a text with a Spanish keyword, in upper case, before a Turkish
\* one was detected as tr.
C21_Witness ==
    /\ f_in # Unset
    /\ f_in.fn = "detect_language"
    /\ f_in.text = W_MUY \o <<" ">> \o W_harika
    /\ f_out # Unset
    /\ f_out.returned = "tr"

\* C22: the policy depends on the rating alone: 1 and 2 give
\* apologize_and_support, 3 gives neutral_improvement, 4 and 5 give
\* thank_and_engage, and every rating outside 1..5 gives neutral_improvement.
C22_PolicyByRating ==
    (f_in # Unset /\ f_in.fn = "response_rule" /\ f_out # Unset) =>
        /\ f_in.rating \in {1, 2} => f_out.returned = "apologize_and_support"
        /\ f_in.rating = 3 => f_out.returned = "neutral_improvement"
        /\ f_in.rating \in {4, 5} => f_out.returned = "thank_and_engage"
        /\ f_in.rating \notin 1..5 => f_out.returned = "neutral_improvement"

\* C22 witness: the ratings 0 and 6 are among the ratings, and one of them got the
\* policy of a rating of 3.
C22_Witness ==
    /\ f_in # Unset
    /\ f_in.fn = "response_rule"
    /\ f_in.rating \in {0, 6}
    /\ f_out # Unset
    /\ f_out.returned = "neutral_improvement"

----------------------------------------------------------------------------
(* Properties of the statistics *)

\* C23: get_stats on an empty history gives a total of zero together with an
\* empty language map, an empty rating map and an average length of zero, and
\* fails on no division.
C23_EmptyHistoryGivesZeroStats ==
    (last_call # Unset /\ last_call.op = "get_stats" /\ last_call.before = <<>>) =>
        /\ last_call.result.total_replies = 0
        /\ {"languages", "ratings", "average_length"} \subseteq DOMAIN last_call.result
        /\ DOMAIN last_call.result.languages = {}
        /\ DOMAIN last_call.result.ratings = {}
        /\ last_call.result.average_length.num = 0

\* What get_stats does give on an empty history: the total of zero and nothing
\* else, with no division made.
EmptyHistoryGivesTotalOnly ==
    (last_call # Unset /\ last_call.op = "get_stats" /\ last_call.before = <<>>) =>
        /\ DOMAIN last_call.result = {"total_replies"}
        /\ last_call.result.total_replies = 0

RECURSIVE CharactersOfFirst(_, _)
\* the characters of the final responses of the first k entries
CharactersOfFirst(history, k) ==
    IF k = 0 THEN 0
    ELSE CharactersOfFirst(history, k - 1) + Len(history[k].final_response)

\* C24: on a history that is not empty, total_replies is the number of entries
\* and average_length is the sum of the entries' character counts divided by
\* that number; entries of 100, 200 and 300 characters give 200.
C24_AverageIsSumOverCount ==
    (f_in # Unset /\ f_in.fn = "get_stats" /\ f_out # Unset /\ f_in.history # <<>>) =>
        LET n == Len(f_in.history)
            stats == f_out.returned
        IN  /\ stats.total_replies = n
            /\ stats.average_length.den > 0
            /\ stats.average_length.num * n
                  = stats.average_length.den * CharactersOfFirst(f_in.history, n)
            /\ [k \in 1..n |-> f_in.history[k].character_count] = <<100, 200, 300>>
                  => stats.average_length = [num |-> 200, den |-> 1]

\* C24 witness: the statistics of three entries of 100, 200 and 300 characters
\* were computed, and the average was 200.
C24_Witness ==
    /\ f_in # Unset
    /\ f_in.fn = "get_stats"
    /\ f_out # Unset
    /\ Len(f_in.history) = 3
    /\ [k \in 1..3 |-> f_in.history[k].character_count] = <<100, 200, 300>>
    /\ f_out.returned.average_length = [num |-> 200, den |-> 1]

----------------------------------------------------------------------------
(* Properties of the history view *)

\* a view was asked for and given: by the CLI, or by the API with AI enabled
ViewGiven ==
    /\ f_in # Unset
    /\ f_out # Unset
    /\ \/ f_in.fn = "show_reply_history"
       \/ f_in.fn = "get_history" /\ f_in.enable_ai

\* the entries of the view, in the order given
Viewed ==
    IF f_in.fn = "show_reply_history" THEN f_out.returned.shown
    ELSE f_out.returned.history

\* the n entries appended last, the newest first
NewestFirst(history, n) == [k \in 1..n |-> history[Len(history) - k + 1]]

Min(a, b) == IF a <= b THEN a ELSE b

\* C25: for every history and every limit >= 0 the view holds exactly the
\* min(limit, length) entries appended last, newest first, and so never more
\* than limit entries.
C25_ViewIsLastLimitEntries ==
    (ViewGiven /\ f_in.limit >= 0) =>
        /\ Viewed = NewestFirst(f_in.history, Min(f_in.limit, Len(f_in.history)))
        /\ Len(Viewed) <= f_in.limit

\* The same for every limit >= 1, which is what the view does give.
ViewIsLastLimitEntriesFromOne ==
    (ViewGiven /\ f_in.limit >= 1) =>
        /\ Viewed = NewestFirst(f_in.history, Min(f_in.limit, Len(f_in.history)))
        /\ Len(Viewed) <= f_in.limit

\* With a limit of 0 the view of a history that is not empty is the whole history.
ViewWithLimitZeroIsEverything ==
    (ViewGiven /\ f_in.limit = 0) => Viewed = Reversed(f_in.history)

----------------------------------------------------------------------------
(* Properties of the two entry points taken together *)

\* C26: every entry point detects the language the same way: for every review
\* text the detector of the backend generator gives the language code the
\* detector of the CLI generator gives.
C26_DetectorsAgree ==
    (f_in # Unset /\ f_out # Unset) =>
        /\ f_in.fn = "detect_language" =>
              f_out.returned = backend_detect_language(f_in.text)
        /\ f_in.fn = "backend_detect_language" =>
              f_out.returned = detect_language(f_in.text)

\* The backend detector knows two languages, and tells them apart by the
\* characters of the text alone.
BackendDetectsByCharacter ==
    (f_in # Unset /\ f_out # Unset /\ f_in.fn = "backend_detect_language") =>
        /\ f_out.returned \in {"tr", "en"}
        /\ (f_out.returned = "tr") <=>
              (\E i \in 1..Len(f_in.text) : f_in.text[i] \in turkish_indicators)

\* the class of a recorded status: skipped, failed, previewed or dispatched
ClassOf(status) ==
    CASE status = "skipped"                        -> "skipped"
      [] status \in {"failed", "error"}            -> "failed"
      [] status \in {"dry_run_success", "preview"} -> "previewed"
      [] status \in {"success", "posted"}          -> "dispatched"

\* a review was put through the loop body of one of the two orchestrators
ClassifiedOne ==
    /\ f_in # Unset
    /\ f_out # Unset
    /\ f_in.fn \in {"auto_reply_to_reviews", "backend_auto_reply_to_reviews"}

\* what the other orchestrator records for the same review, mode and results
OtherDetail ==
    IF f_in.fn = "auto_reply_to_reviews"
    THEN backend_auto_reply_detail(f_in.review, f_in.dry_run, f_in.value, f_in.storefront)
    ELSE auto_reply_detail(f_in.review, f_in.dry_run, f_in.value, f_in.storefront)

\* C27: the CLI orchestrator and the backend orchestrator put every review in
\* the same class among skipped, failed, previewed and dispatched, given the
\* same review, mode, generator result and dispatch result.
C27_OrchestratorsClassifyAlike ==
    ClassifiedOne => ClassOf(f_out.returned.status) = ClassOf(OtherDetail.status)

\* The two agree on the reviews that have a reply already, and on those with a
\* comment and fewer than five stars.
OrchestratorsAgreeBelowFiveStars ==
    (/\ ClassifiedOne
     /\ \/ f_in.review.hasReply
        \/ f_in.review.rating < 5 /\ ~IsBlank(f_in.review.userComment))
        => ClassOf(f_out.returned.status) = ClassOf(OtherDetail.status)

----------------------------------------------------------------------------
(* Properties of a run and its history *)

\* the generate_response calls of the run whose answer the validator accepted
ValidatedCalls == {j \in 1..Len(generated) : AcceptedIn(generated[j]).some}

\* C28: a history entry is appended for a review exactly when the model
\* returned text and the validator accepted it, and before any dispatch: the
\* entries added by a run are as many as its reviews with a validated response,
\* a previewed review and a review whose dispatch failed have their entry, and
\* skipped, generation-failed and rejected reviews have none.
C28_EntryIffValidatedBeforeDispatch ==
    /\ Len(reply_history) = Cardinality(ValidatedCalls)
    /\ \A j \in 1..Len(generated) :
          LET entries == At(reply_history, generated[j].review_id)
          IN  IF AcceptedIn(generated[j]).some
              THEN /\ Cardinality(entries) = 1
                   /\ \A k \in entries :
                         reply_history[k].final_response = AcceptedIn(generated[j]).val
              ELSE entries = {}
    /\ \A k \in 1..Len(reply_history) : At(generated, reply_history[k].review_id) # {}
    /\ pc = "respond" => At(reply_history, reviews[idx].reviewId) # {}
    /\ \A k \in 1..Len(posted) :
          \E m \in At(reply_history, posted[k].review_id) :
              reply_history[m].final_response = posted[k].text
    /\ \A k \in 1..Len(Details) :
          /\ Details[k].status \in {"dry_run_success", "success"}
                => At(reply_history, Details[k].review_id) # {}
          /\ Details[k].status = "skipped" => At(reply_history, Details[k].review_id) = {}

\* C28 witness: a finished live run in which the dispatch failed for a review that
\* has its history entry, and the validator rejected the text for another review
\* that has none.
C28_Witness ==
    /\ pc = "returned"
    /\ \E k \in 1..Len(posted) :
          /\ ~posted[k].ok
          /\ At(reply_history, posted[k].review_id) # {}
    /\ \E j \in 1..Len(generated) :
          /\ generated[j].model.kind = "text"
          /\ ~AcceptedIn(generated[j]).some
          /\ At(reply_history, generated[j].review_id) = {}

\* a finished dry run previewed a review, and the review has its history entry
DryRunLeftEntry ==
    /\ pc = "returned"
    /\ dry_run
    /\ \E k \in 1..Len(Details) :
          /\ Details[k].status = "dry_run_success"
          /\ At(reply_history, Details[k].review_id) # {}

----------------------------------------------------------------------------
(* Properties of the API process *)

\* the last request was a /configure with AI enabled, answered with a success
ConfiguredWithAi ==
    /\ api_response # Unset
    /\ api_response.request = "configure"
    /\ api_response.status = 200
    /\ api_response.enable_ai

\* C29: after /configure succeeds with enable_ai = true and the Gemini key K,
\* the generator installed in the reviews handler is configured with K, on the
\* first configure call and on a later call that changes the key.
C29_ConfiguredGeneratorHasRequestKey ==
    ConfiguredWithAi =>
        /\ reviews_handler.some
        /\ reviews_handler.val.ai_generator.some
        /\ reviews_handler.val.ai_generator.val.api_key = api_response.gemini_api_key

\* What /configure does install: a generator with the key the environment held
\* before the call, which is the key of the call before, if there was one.
ConfiguredGeneratorHasEarlierKey ==
    [][ConfiguredWithAi' =>
          \/ reviews_handler'.val.ai_generator.val.api_key = environ_key
          \/ UNCHANGED <<reviews_handler, api_response>>]_vars

\* The key of the request does reach the environment.
ConfiguredKeyIsInEnvironment ==
    ConfiguredWithAi => environ_key = api_response.gemini_api_key

\* C30: after the logout operation succeeds for a session token the token
\* authenticates no more: a lookup of the token gives no user, and a request
\* that carries it is answered with 401.
C30_LoggedOutTokenIsRejected ==
    \A out \in logged_out :
        /\ ~get_user_by_token(sessions, out.token).user.some
        /\ (/\ api_response.request = "me"
            /\ api_response.authorization = Some(out.token))
              => api_response.status = 401

\* The same for the logouts made on the user manager itself, which do remove
\* the session.
ManagerLogoutInvalidates ==
    \A out \in logged_out :
        out.by = "UserManager.logout_user" =>
            /\ ~get_user_by_token(sessions, out.token).user.some
            /\ (/\ api_response.request = "me"
                /\ api_response.authorization = Some(out.token))
                  => api_response.status = 401

\* POST /auth/logout leaves the sessions as the lookup of the token left them.
EndpointLogoutKeepsSession ==
    [][(api_response' # api_response /\ api_response'.request = "logout"
            /\ api_response'.status = 200)
          => /\ sessions' = sessions
             /\ api_response'.authorization.val \in DOMAIN sessions']_vars

====
